---- MODULE Spec2Model ----
(***************************************************************************)
(* Reward distribution jobs of dfx-synthetics.                             *)
(*                                                                         *)
(*   batchSend main        src/config/roles.ts:172-277                     *)
(*   stipLpIncentives main src/scripts/incentives/stipLpIncentives.ts      *)
(*                                                                         *)
(* Spec      : runs of batchSend main against one ledger file, one token   *)
(*             allowance and one chain.                                    *)
(* SpecAlloc : one run of stipLpIncentives main over bounded input data.   *)
(* SpecBalances : requestBalancesData applied to bounded subgraph rows.    *)
(* SpecCalldata : getBatchSenderCalldata applied to the file's list,       *)
(*             followed by the runs of batchSend main over the same file.  *)
(***************************************************************************)
EXTENDS Integers, Sequences, FiniteSets, TLC

(***************************************************************************)
(* Bounds of the model.                                                    *)
(***************************************************************************)
MaxN == 301          \* longest recipient list of a distribution file
MaxRuns == 2         \* runs of batchSend main in one behaviour

(***************************************************************************)
(* Program constants.                                                      *)
(***************************************************************************)
batchSize == 150     \* roles.ts:217

Ids == {1, 2}        \* distribution ids (data.id is truthy, roles.ts:329)

None == [kind |-> "none"]

(***************************************************************************)
(* Generic helpers.                                                        *)
(***************************************************************************)
Min(a, b) == IF a < b THEN a ELSE b

\* The sum of s[lo..hi], split in halves to keep the evaluation shallow.
RECURSIVE SumRange(_, _, _)
SumRange(s, lo, hi) ==
  IF lo > hi THEN 0
  ELSE IF lo = hi THEN s[lo]
  ELSE LET mid == (lo + hi) \div 2
       IN SumRange(s, lo, mid) + SumRange(s, mid + 1, hi)

\* amounts.reduce((acc, amount) => acc.add(amount), bigNumberify(0))
SumSeq(s) == SumRange(s, 1, Len(s))

\* Array.prototype.slice(from, to) on a 0-based array held as a 1-based sequence:
\* the elements at indices from .. to-1, with `to` clamped to the length.
slice(s, from, to) == SubSeq(s, from + 1, Min(to, Len(s)))

\* lodash range(start, end, step) for a positive step: an array of
\* max(ceil((end - start) / step), 0) elements start, start+step, ...
range(start, end, step) ==
  IF start >= end THEN <<>>
  ELSE [i \in 1..((end - start + step - 1) \div step) |-> start + (i - 1) * step]

\* bigNumberify of a decimal string (a sequence of digits, most significant first).
RECURSIVE bigNumberify(_)
bigNumberify(str) ==
  IF str = <<>> THEN 0
  ELSE bigNumberify(SubSeq(str, 1, Len(str) - 1)) * 10 + str[Len(str)]

(***************************************************************************)
(* The distribution file.  A recipient key of data.amounts is a string; the*)
(* model writes the key 2*a for the lower-case spelling of address a and   *)
(* 2*a+1 for its checksum-case spelling: two different keys of the JSON    *)
(* object, one recipient address.  A file is [id, n, dup]: n entries for   *)
(* the addresses 1..n in order; with dup = <<p, q>> the entry at position q*)
(* is the other spelling of the address at position p.                     *)
(***************************************************************************)
NoDup == <<0, 0>>
Dups == {NoDup, <<1, 2>>, <<1, batchSize + 1>>}
Lens == {n \in 0..MaxN : n % batchSize \in {0, 1, 2}}

Address(key) == key \div 2

KeyAt(file, i) == IF file.dup[2] = i THEN 2 * file.dup[1] + 1 ELSE 2 * i
AmountStrAt(i) == <<1, i % 10>>

Files == {f \in [n : Lens, dup : Dups] : f.dup[2] <= f.n}

\* Object.entries(data.amounts): the [recipient, amount] pairs in file order.
Entries(file) == [i \in 1..file.n |-> <<KeyAt(file, i), AmountStrAt(i)>>]

VARIABLES
  \* batchSend
  file,            \* the amounts of the distribution file named by FILENAME
  ledgerFile,      \* .migrations.json: [exists, content]
  allowance,       \* token allowance of the signer to the batch sender
  chain,           \* confirmed transactions, oldest first
  pending,         \* the transaction sent and not yet confirmed, or None
  now,             \* Math.floor(Date.now() / 1000)
  runs,            \* runs of main started so far
  pc,              \* position of main
  err,             \* the error main threw
  env,             \* process.env of the run
  data,            \* the parsed distribution file
  migrations,      \* main's local copy of the ledger
  recipients, amounts, totalAmount,
  batchIx,         \* batches of range(0, n, batchSize) already iterated
  seenRecipients,
  simulated,       \* batches passed to callStatic.sendAndEmit by this run
  runBase,         \* Len(chain) when the run started
  calldataArgs,        \* the batchSize getBatchSenderCalldata was called with
  batchSenderCalldata  \* the object it returned: <<key, calldata>> in insertion order

calldataVars == <<calldataArgs, batchSenderCalldata>>

batchVars == <<file, ledgerFile, allowance, chain, pending, now, runs, pc, err, env,
               data, migrations, recipients, amounts, totalAmount, batchIx,
               seenRecipients, simulated, runBase, calldataVars>>

VARIABLES
  \* stipLpIncentives
  balancesData,            \* result of requestBalancesData
  lpAllocationData,        \* allocationData.lp
  apc,                     \* position of stipLpIncentives main
  aerr,                    \* the error it threw
  marketIx,                \* rewarded markets already processed
  usersDistributionResult,
  userTotalRewards, jsonResult, usersBelowThreshold, eligibleUsers,
  distributionFile,        \* the file saveDistribution wrote, or None
  subgraphData             \* the rows requestSubgraph returned to requestBalancesData

allocVars == <<balancesData, lpAllocationData, apc, aerr, marketIx,
               usersDistributionResult, userTotalRewards, jsonResult,
               usersBelowThreshold, eligibleUsers, distributionFile, subgraphData>>

vars == <<batchVars, allocVars>>

EmptyMap == [x \in {} |-> 0]
NoCalldataArgs == [batchSize |-> 0]
NoSubgraphData == [liquidityProviderIncentivesStats |-> <<>>, marketIncentivesStats |-> <<>>,
                   userMarketInfos |-> <<>>, marketInfos |-> <<>>]
NoEnv == [WRITE |-> FALSE, BATCH_SENDER_KEY |-> FALSE,
          SKIP_MIGRATION_VALIDATION |-> FALSE, DRY_RUN |-> FALSE]
Envs == [WRITE : BOOLEAN, BATCH_SENDER_KEY : BOOLEAN,
         SKIP_MIGRATION_VALIDATION : BOOLEAN, DRY_RUN : BOOLEAN]

\* roles.ts:156: process.env.WRITE === "true"
shouldSendTxn_Always(e) == TRUE
shouldSendTxn(e) == e.WRITE

\* readMigrations: a missing file is the empty ledger.
readMigrations(f) == IF ~f.exists THEN EmptyMap ELSE f.content

\* saveMigrations: the whole mapping replaces the file.
saveMigrations(m) == [exists |-> TRUE, content |-> m]

\* migrations[data.id] && !process.env.SKIP_MIGRATION_VALIDATION
AlreadySent_NoCheck(m, d, e) == FALSE
AlreadySent(m, d, e) ==
  d.id \in DOMAIN m /\ m[d.id] # 0 /\ ~e.SKIP_MIGRATION_VALIDATION

recipientsOf(entries) == [i \in 1..Len(entries) |-> entries[i][1]]
amountsOf(entries) == [i \in 1..Len(entries) |-> bigNumberify(entries[i][2])]

Froms == range(0, Len(amounts), batchSize)
from == Froms[batchIx + 1]
to_OffByOne == Min(from + batchSize, Len(amounts)) - 1
to == Min(from + batchSize, Len(amounts))
batchAmounts == slice(amounts, from, to)
batchRecipients == slice(recipients, from, to)

SendTx(rs, as) == [kind |-> "sendAndEmit", recipients |-> rs, amounts |-> as]
ApproveTx(amount) == [kind |-> "approve", recipients |-> <<>>, amounts |-> <<amount>>]

AllocIdle ==
  /\ balancesData = EmptyMap
  /\ lpAllocationData = [isActive |-> FALSE, rewardsPerMarket |-> EmptyMap,
                         totalRewards |-> 0]
  /\ apc = "off"
  /\ aerr = "none"
  /\ marketIx = 0
  /\ usersDistributionResult = EmptyMap
  /\ userTotalRewards = 0
  /\ jsonResult = EmptyMap
  /\ usersBelowThreshold = 0
  /\ eligibleUsers = 0
  /\ distributionFile = None
  /\ subgraphData = NoSubgraphData

Init ==
  /\ AllocIdle
  /\ file \in Files
  /\ ledgerFile \in {[exists |-> FALSE, content |-> EmptyMap],
                     [exists |-> TRUE, content |-> (1 :> 1)]}
  /\ allowance \in {0, 100}
  /\ chain = <<>>
  /\ pending = None
  /\ now = 2
  /\ runs = 0
  /\ pc = "idle"
  /\ err = "none"
  /\ env = NoEnv
  /\ data = [id |-> 0]
  /\ migrations = EmptyMap
  /\ recipients = <<>>
  /\ amounts = <<>>
  /\ totalAmount = 0
  /\ batchIx = 0
  /\ seenRecipients = {}
  /\ simulated = <<>>
  /\ runBase = 0
  /\ calldataArgs = NoCalldataArgs
  /\ batchSenderCalldata = <<>>

Throw(e) ==
  /\ pc' = "failed"
  /\ err' = e

\* roles.ts:172-210 and 274-276: main up to its first await.  FILENAME names a
\* well-formed distribution file and the network is arbitrum, so readDistributionFile
\* and getValues do not throw.
Start ==
  /\ UNCHANGED allocVars
  /\ UNCHANGED calldataVars
  /\ pc = "idle"
  /\ runs < MaxRuns
  /\ \E e \in Envs, id \in Ids :
       LET d == [id |-> id]
           m == readMigrations(ledgerFile)
           entries == Entries(file)
       IN /\ env' = e
          /\ data' = d
          /\ migrations' = m
          /\ runs' = runs + 1
          /\ now' = now + 1
          /\ runBase' = Len(chain)
          /\ batchIx' = 0
          /\ seenRecipients' = {}
          /\ simulated' = <<>>
          /\ IF AlreadySent(m, d, e)
               THEN /\ Throw("AlreadySent")
                    /\ UNCHANGED <<recipients, amounts, totalAmount>>
             ELSE IF shouldSendTxn(e) /\ ~e.BATCH_SENDER_KEY
               THEN /\ Throw("KeyRequired")
                    /\ UNCHANGED <<recipients, amounts, totalAmount>>
             ELSE /\ recipients' = recipientsOf(entries)
                  /\ amounts' = amountsOf(entries)
                  /\ totalAmount' = SumSeq(amountsOf(entries))
                  /\ pc' = IF shouldSendTxn(e) THEN "allowance" ELSE "done"
                  /\ err' = "none"
  /\ UNCHANGED <<file, ledgerFile, allowance, chain, pending>>

\* roles.ts:219-229: the allowance is read; an approval is sent when it is short.
CheckAllowance_NoApprove ==
  /\ UNCHANGED allocVars
  /\ UNCHANGED calldataVars
  /\ pc = "allowance"
  /\ pc' = "loop"
  /\ UNCHANGED <<file, ledgerFile, allowance, chain, pending, now, runs, err, env, data,
                 migrations, recipients, amounts, totalAmount, batchIx,
                 seenRecipients, simulated, runBase>>

CheckAllowance ==
  /\ UNCHANGED allocVars
  /\ UNCHANGED calldataVars
  /\ pc = "allowance"
  /\ IF allowance < SumSeq(amounts)
       THEN /\ pending' = ApproveTx(SumSeq(amounts))
            /\ pc' = "approving"
       ELSE /\ pending' = pending
            /\ pc' = "loop"
  /\ UNCHANGED <<file, ledgerFile, allowance, chain, now, runs, err, env, data,
                 migrations, recipients, amounts, totalAmount, batchIx,
                 seenRecipients, simulated, runBase>>

\* roles.ts:230: tx.wait() of the approval resolves.
ApproveConfirmed ==
  /\ UNCHANGED allocVars
  /\ UNCHANGED calldataVars
  /\ pc = "approving"
  /\ allowance' = pending.amounts[1]
  /\ chain' = Append(chain, pending)
  /\ pending' = None
  /\ pc' = "loop"
  /\ UNCHANGED <<file, ledgerFile, now, runs, err, env, data, migrations, recipients,
                 amounts, totalAmount, batchIx, seenRecipients, simulated, runBase>>

\* roles.ts:228-230: the approval is rejected or reverts.
ApproveFailed ==
  /\ UNCHANGED allocVars
  /\ UNCHANGED calldataVars
  /\ pc = "approving"
  /\ pending' = None
  /\ Throw("Submission")
  /\ UNCHANGED <<file, ledgerFile, allowance, chain, now, runs, env, data, migrations,
                 recipients, amounts, totalAmount, batchIx, seenRecipients, simulated,
                 runBase>>

\* roles.ts:243-254: the duplicate check of one batch; seenRecipients is only read.
DuplicatedRecipient(seen, batch) == \E j \in 1..Len(batch) : batch[j] \in seen

\* roles.ts:236-266: one iteration of the batch loop up to its await.
SendBatch_NoAwait ==
  /\ UNCHANGED allocVars
  /\ UNCHANGED calldataVars
  /\ pc = "loop"
  /\ batchIx < Len(Froms)
  /\ IF DuplicatedRecipient(seenRecipients, batchRecipients)
       THEN /\ Throw("DuplicatedRecipient")
            /\ UNCHANGED <<pending, simulated, batchIx>>
     ELSE IF env.DRY_RUN
       THEN \E ok \in BOOLEAN :
              IF ok THEN /\ simulated' = Append(simulated, SendTx(batchRecipients, batchAmounts))
                         /\ batchIx' = batchIx + 1
                         /\ UNCHANGED <<pending, pc, err>>
              ELSE /\ Throw("Submission")
                   /\ UNCHANGED <<pending, simulated, batchIx>>
     ELSE /\ pending' = SendTx(batchRecipients, batchAmounts)
          /\ batchIx' = batchIx + 1
          /\ UNCHANGED <<pc, err, simulated>>
  /\ UNCHANGED <<file, ledgerFile, allowance, chain, now, runs, env, data, migrations,
                 recipients, amounts, totalAmount, seenRecipients, runBase>>

SendBatch ==
  /\ UNCHANGED allocVars
  /\ UNCHANGED calldataVars
  /\ pc = "loop"
  /\ batchIx < Len(Froms)
  /\ IF DuplicatedRecipient(seenRecipients, batchRecipients)
       THEN /\ Throw("DuplicatedRecipient")
            /\ UNCHANGED <<pending, simulated, batchIx>>
     ELSE IF env.DRY_RUN
       THEN \* callStatic.sendAndEmit: an eth_call, which returns or reverts
            \E ok \in BOOLEAN :
              IF ok THEN /\ simulated' = Append(simulated, SendTx(batchRecipients, batchAmounts))
                         /\ batchIx' = batchIx + 1
                         /\ UNCHANGED <<pending, pc, err>>
              ELSE /\ Throw("Submission")
                   /\ UNCHANGED <<pending, simulated, batchIx>>
     ELSE /\ pending' = SendTx(batchRecipients, batchAmounts)
          /\ pc' = "sent"
          /\ UNCHANGED <<err, simulated, batchIx>>
  /\ UNCHANGED <<file, ledgerFile, allowance, chain, now, runs, env, data, migrations,
                 recipients, amounts, totalAmount, seenRecipients, runBase>>

\* roles.ts:267: tx.wait() of the batch resolves.  The batch sender pulls the tokens
\* with transferFrom, which needs and spends the allowance.
BatchConfirmed ==
  /\ UNCHANGED allocVars
  /\ UNCHANGED calldataVars
  /\ pc = "sent"
  /\ allowance >= SumSeq(pending.amounts)
  /\ allowance' = allowance - SumSeq(pending.amounts)
  /\ chain' = Append(chain, pending)
  /\ pending' = None
  /\ batchIx' = batchIx + 1
  /\ pc' = "loop"
  /\ UNCHANGED <<file, ledgerFile, now, runs, err, env, data, migrations, recipients,
                 amounts, totalAmount, seenRecipients, simulated, runBase>>

\* roles.ts:265-267: the batch transaction is rejected or reverts; main throws.
BatchFailed_Skip ==
  /\ UNCHANGED allocVars
  /\ UNCHANGED calldataVars
  /\ pc = "sent"
  /\ pending' = None
  /\ batchIx' = batchIx + 1
  /\ pc' = "loop"
  /\ UNCHANGED <<file, ledgerFile, allowance, chain, now, runs, err, env, data,
                 migrations, recipients, amounts, totalAmount, seenRecipients,
                 simulated, runBase>>

BatchFailed ==
  /\ UNCHANGED allocVars
  /\ UNCHANGED calldataVars
  /\ pc = "sent"
  /\ pending' = None
  /\ Throw("Submission")
  /\ UNCHANGED <<file, ledgerFile, allowance, chain, now, runs, env, data, migrations,
                 recipients, amounts, totalAmount, batchIx, seenRecipients, simulated,
                 runBase>>

\* roles.ts:272-273: after the loop the id is recorded and the ledger saved.
Finish_DropsOthers ==
  /\ UNCHANGED allocVars
  /\ UNCHANGED calldataVars
  /\ pc = "loop"
  /\ batchIx >= Len(Froms)
  /\ migrations' = (data.id :> now)
  /\ ledgerFile' = saveMigrations((data.id :> now))
  /\ pc' = "done"
  /\ UNCHANGED <<file, allowance, chain, pending, now, runs, err, env, data, recipients,
                 amounts, totalAmount, batchIx, seenRecipients, simulated, runBase>>

Finish ==
  /\ UNCHANGED allocVars
  /\ UNCHANGED calldataVars
  /\ pc = "loop"
  /\ batchIx >= Len(Froms)
  /\ migrations' = (data.id :> now) @@ migrations
  /\ ledgerFile' = saveMigrations((data.id :> now) @@ migrations)
  /\ pc' = "done"
  /\ UNCHANGED <<file, allowance, chain, pending, now, runs, err, env, data, recipients,
                 amounts, totalAmount, batchIx, seenRecipients, simulated, runBase>>

\* roles.ts:364-373: process.exit; the process's memory is gone.
Exit ==
  /\ UNCHANGED allocVars
  /\ UNCHANGED calldataVars
  /\ pc \in {"done", "failed"}
  /\ pc' = "idle"
  /\ err' = "none"
  /\ env' = NoEnv
  /\ data' = [id |-> 0]
  /\ migrations' = EmptyMap
  /\ recipients' = <<>>
  /\ amounts' = <<>>
  /\ totalAmount' = 0
  /\ batchIx' = 0
  /\ seenRecipients' = {}
  /\ simulated' = <<>>
  /\ runBase' = Len(chain)
  /\ UNCHANGED <<file, ledgerFile, allowance, chain, pending, now, runs>>

Next ==
  \/ Start
  \/ CheckAllowance
  \/ ApproveConfirmed
  \/ ApproveFailed
  \/ SendBatch
  \/ BatchConfirmed
  \/ BatchFailed
  \/ Finish
  \/ Exit

Spec == Init /\ [][Next]_vars

(***************************************************************************)
(* stipLpIncentives main.                                                  *)
(*                                                                         *)
(* Token amounts are BigNumbers of 18 decimals in the program.  TLC's      *)
(* integers are 32 bits wide, so the model counts every amount in units of *)
(* 10^16 wei: expandDecimals(1, 18) is 100 and expandDecimals(1, 17) is 10.*)
(***************************************************************************)
RECURSIVE Pow10(_)
Pow10(k) == IF k = 0 THEN 1 ELSE 10 * Pow10(k - 1)

\* utils/math expandDecimals(n, decimals) = n * 10^decimals, in units of 10^16.
expandDecimals(n, decimals) == n * Pow10(decimals - 16)

Abs(x) == IF x < 0 THEN -x ELSE x

\* BigNumber.toString(): the decimal digits, most significant first.
RECURSIVE toString(_)
toString(n) == IF n < 10 THEN <<n>> ELSE toString(n \div 10) \o <<n % 10>>

Markets == {"m1", "m2"}
MarketOrder == <<"m1", "m2">>
Accounts == {"a", "b"}
AccountOrder == <<"a", "b">>
BalVals == {0, 5, 10, 100}
SupVals == {0, 15, 100}
RewVals == {7, 100}
TotVals == {100, 200}

\* Object.keys / Object.entries order of an object keyed by markets or accounts.
ObjectKeys(obj, order) == SelectSeq(order, LAMBDA k : k \in DOMAIN obj)

RECURSIVE SumOver(_, _)
SumOver(f, S) ==
  IF S = {} THEN 0
  ELSE LET x == CHOOSE y \in S : TRUE IN f[x] + SumOver(f, S \ {x})

\* Object.values(userBalances).reduce((acc, b) => acc.add(b), bigNumberify(0))
SumValues(f) == SumOver(f, DOMAIN f)

UserBalancesSet == UNION {[A -> BalVals] : A \in SUBSET Accounts}
MarketDatas == [marketTokensSupply : SupVals, userBalances : UserBalancesSet]
BalancesDatas == UNION {[P -> MarketDatas] : P \in {{"m1"}, {"m1", "m2"}}}
AllocationDatas ==
  {[isActive |-> act, rewardsPerMarket |-> r, totalRewards |-> t] :
     act \in BOOLEAN,
     r \in UNION {[K -> RewVals] : K \in {{"m1"}, {"m1", "m2"}}},
     t \in TotVals}

BatchIdle ==
  /\ file = [n |-> 0, dup |-> NoDup]
  /\ ledgerFile = [exists |-> FALSE, content |-> EmptyMap]
  /\ allowance = 0
  /\ chain = <<>>
  /\ pending = None
  /\ now = 2
  /\ runs = 0
  /\ pc = "off"
  /\ err = "none"
  /\ env = NoEnv
  /\ data = [id |-> 0]
  /\ migrations = EmptyMap
  /\ recipients = <<>>
  /\ amounts = <<>>
  /\ totalAmount = 0
  /\ batchIx = 0
  /\ seenRecipients = {}
  /\ simulated = <<>>
  /\ runBase = 0
  /\ calldataArgs = NoCalldataArgs
  /\ batchSenderCalldata = <<>>

\* stipLpIncentives.ts:140-143: the data the two requests returned.
AllocInit ==
  /\ BatchIdle
  /\ balancesData \in BalancesDatas
  /\ lpAllocationData \in AllocationDatas
  /\ apc = "start"
  /\ aerr = "none"
  /\ marketIx = 0
  /\ usersDistributionResult = EmptyMap
  /\ userTotalRewards = 0
  /\ jsonResult = EmptyMap
  /\ usersBelowThreshold = 0
  /\ eligibleUsers = 0
  /\ distributionFile = None
  /\ subgraphData = NoSubgraphData

AllocThrow(e) ==
  /\ apc' = "failed"
  /\ aerr' = e

\* stipLpIncentives.ts:145-153
AllocStart ==
  /\ UNCHANGED batchVars
  /\ UNCHANGED subgraphData
  /\ apc = "start"
  /\ IF ~lpAllocationData.isActive
       THEN AllocThrow("NoIncentives")
       ELSE apc' = "markets" /\ aerr' = aerr
  /\ UNCHANGED <<balancesData, lpAllocationData, marketIx, usersDistributionResult,
                 userTotalRewards, jsonResult, usersBelowThreshold, eligibleUsers,
                 distributionFile>>

\* stipLpIncentives.ts:166
ReconciliationFails_Inclusive(userBalancesSum, marketTokensSupply) ==
  Abs(userBalancesSum - marketTokensSupply) >= expandDecimals(1, 18)
ReconciliationFails(userBalancesSum, marketTokensSupply) ==
  Abs(userBalancesSum - marketTokensSupply) > expandDecimals(1, 18)

\* stipLpIncentives.ts:187
userRewards_RoundUp(userBalance, marketRewards, marketTokensSupply) ==
  (userBalance * marketRewards + marketTokensSupply - 1) \div marketTokensSupply
userRewards(userBalance, marketRewards, marketTokensSupply) ==
  (userBalance * marketRewards) \div marketTokensSupply

\* stipLpIncentives.ts:182-199: the rewards of one market added to the result.
addMarketRewards(result, userBalances, marketRewards, marketTokensSupply) ==
  [a \in DOMAIN result \cup DOMAIN userBalances |->
     (IF a \in DOMAIN result THEN result[a] ELSE 0)
     + (IF a \in DOMAIN userBalances
          THEN userRewards(userBalances[a], marketRewards, marketTokensSupply)
          ELSE 0)]

RewardedMarkets == ObjectKeys(lpAllocationData.rewardsPerMarket, MarketOrder)

\* stipLpIncentives.ts:155-200: one iteration of the loop over the rewarded markets.
ProcessMarket ==
  /\ UNCHANGED batchVars
  /\ UNCHANGED subgraphData
  /\ apc = "markets"
  /\ marketIx < Len(RewardedMarkets)
  /\ LET marketAddress == RewardedMarkets[marketIx + 1]
     IN IF marketAddress \notin DOMAIN balancesData
          THEN /\ AllocThrow("NoBalancesData")
               /\ UNCHANGED <<marketIx, usersDistributionResult>>
        ELSE LET userBalances == balancesData[marketAddress].userBalances
                 userBalancesSum == SumValues(userBalances)
                 marketTokensSupply == balancesData[marketAddress].marketTokensSupply
                 marketRewards == lpAllocationData.rewardsPerMarket[marketAddress]
             IN IF ReconciliationFails(userBalancesSum, marketTokensSupply)
                  THEN /\ AllocThrow("Reconciliation")
                       /\ UNCHANGED <<marketIx, usersDistributionResult>>
                ELSE IF marketTokensSupply = 0 /\ DOMAIN userBalances # {}
                  THEN \* BigNumber.div throws on a zero divisor
                       /\ AllocThrow("DivisionByZero")
                       /\ UNCHANGED <<marketIx, usersDistributionResult>>
                ELSE /\ usersDistributionResult' =
                          addMarketRewards(usersDistributionResult, userBalances,
                                           marketRewards, marketTokensSupply)
                     /\ marketIx' = marketIx + 1
                     /\ UNCHANGED <<apc, aerr>>
  /\ UNCHANGED <<balancesData, lpAllocationData, userTotalRewards, jsonResult,
                 usersBelowThreshold, eligibleUsers, distributionFile>>

\* stipLpIncentives.ts:202
MIN_REWARD_THRESHOLD == expandDecimals(1, 17)

\* stipLpIncentives.ts:212
BelowThreshold_Inclusive(rewards) == rewards <= MIN_REWARD_THRESHOLD
BelowThreshold(rewards) == rewards < MIN_REWARD_THRESHOLD

Pos(order, x) == CHOOSE i \in 1..Len(order) : order[i] = x

\* stipLpIncentives.ts:208-210: the accounts ascending by reward.  The comparator
\* never answers 0; accounts of equal reward are kept in insertion order here, and
\* the order decides only the order of the log lines and of jsonResult's keys.
RECURSIVE sortByReward(_, _)
sortByReward(S, r) ==
  IF S = {} THEN <<>>
  ELSE LET a == CHOOSE x \in S : \A y \in S :
                  \/ r[x] < r[y]
                  \/ r[x] = r[y] /\ Pos(AccountOrder, x) <= Pos(AccountOrder, y)
       IN <<a>> \o sortByReward(S \ {a}, r)

\* stipLpIncentives.ts:211-225: the body of the loop over the sorted accounts.
FilterStep_SumIncluded(acc, userAccount, rewards) ==
  IF BelowThreshold(rewards)
    THEN [acc EXCEPT !.usersBelowThreshold = @ + 1]
    ELSE [acc EXCEPT !.userTotalRewards = @ + rewards,
                     !.eligibleUsers = @ + 1,
                     !.jsonResult = (userAccount :> toString(rewards)) @@ @]
FilterStep(acc, userAccount, rewards) ==
  IF BelowThreshold(rewards)
    THEN [acc EXCEPT !.userTotalRewards = @ + rewards,
                     !.usersBelowThreshold = @ + 1]
    ELSE [acc EXCEPT !.userTotalRewards = @ + rewards,
                     !.eligibleUsers = @ + 1,
                     !.jsonResult = (userAccount :> toString(rewards)) @@ @]

RECURSIVE FilterLoop(_, _, _)
FilterLoop(order, result, acc) ==
  IF order = <<>> THEN acc
  ELSE FilterLoop(Tail(order), result, FilterStep(acc, Head(order), result[Head(order)]))

\* stipLpIncentives.ts:202-232: the threshold filter and the over-allocation check.
FilterRewards ==
  /\ UNCHANGED batchVars
  /\ UNCHANGED subgraphData
  /\ apc = "markets"
  /\ marketIx = Len(RewardedMarkets)
  /\ LET res == FilterLoop(sortByReward(DOMAIN usersDistributionResult,
                                        usersDistributionResult),
                           usersDistributionResult,
                           [userTotalRewards |-> 0, jsonResult |-> EmptyMap,
                            usersBelowThreshold |-> 0, eligibleUsers |-> 0])
     IN /\ userTotalRewards' = res.userTotalRewards
        /\ jsonResult' = res.jsonResult
        /\ usersBelowThreshold' = res.usersBelowThreshold
        /\ eligibleUsers' = res.eligibleUsers
        /\ IF res.userTotalRewards > lpAllocationData.totalRewards
             THEN AllocThrow("OverAllocation")
             ELSE apc' = "save" /\ aerr' = aerr
  /\ UNCHANGED <<balancesData, lpAllocationData, marketIx, usersDistributionResult,
                 distributionFile>>

\* helpers overrideReceivers: no modelled account has a receiver override.
overrideReceivers(result) == result

\* helpers saveDistribution: the distribution file with the given amounts.
saveDistribution(result) == [kind |-> "distribution", amounts |-> result]

\* stipLpIncentives.ts:234-262
SaveDistribution ==
  /\ UNCHANGED batchVars
  /\ UNCHANGED subgraphData
  /\ apc = "save"
  /\ distributionFile' = saveDistribution(overrideReceivers(jsonResult))
  /\ apc' = "done"
  /\ UNCHANGED <<balancesData, lpAllocationData, aerr, marketIx,
                 usersDistributionResult, userTotalRewards, jsonResult,
                 usersBelowThreshold, eligibleUsers>>

AllocNext ==
  \/ AllocStart
  \/ ProcessMarket
  \/ FilterRewards
  \/ SaveDistribution

SpecAlloc == AllocInit /\ [][AllocNext]_vars

(***************************************************************************)
(* requestBalancesData (stipLpIncentives.ts:14-123).                       *)
(*                                                                         *)
(* The subgraph returns every address in lower case, and one row per       *)
(* account and market in each of its two account lists.  "0xm1", "0xa" ... *)
(* are those lower-case spellings; "m1", "a" ... are the checksum-case     *)
(* spellings that key balancesData.                                        *)
(***************************************************************************)
RawMarkets == <<"0xm1", "0xm2">>
RawAccounts == <<"0xa", "0xb">>

\* ethers.utils.getAddress: the checksum-case spelling of an address.
getAddress(address) ==
  CASE address = "0xm1" -> "m1"
    [] address = "0xm2" -> "m2"
    [] address = "0xa" -> "a"
    [] address = "0xb" -> "b"
    [] OTHER -> address

\* The (market, account) pairs in the order of the rows; the decimal strings a row
\* can carry, <<>> standing for "no such row".
RowPairs ==
  [i \in 1..(Len(RawMarkets) * Len(RawAccounts)) |->
     <<RawMarkets[((i - 1) \div Len(RawAccounts)) + 1],
       RawAccounts[((i - 1) % Len(RawAccounts)) + 1]>>]
StatStrs == {<<>>, <<0>>, <<5>>}
InfoStrs == {<<>>, <<0>>, <<7>>}
SupplyStatStrs == {<<>>, <<1, 2>>}
SupplyStrs == {<<0>>, <<1, 5>>}

Present(choice) ==
  SelectSeq([i \in 1..Len(RowPairs) |-> i], LAMBDA i : choice[i] # <<>>)
lpStatRows(choice) ==
  [k \in 1..Len(Present(choice)) |->
     [account |-> RowPairs[Present(choice)[k]][2],
      marketAddress |-> RowPairs[Present(choice)[k]][1],
      weightedAverageMarketTokensBalance |-> choice[Present(choice)[k]]]]
userMarketInfoRows(choice) ==
  [k \in 1..Len(Present(choice)) |->
     [account |-> RowPairs[Present(choice)[k]][2],
      marketAddress |-> RowPairs[Present(choice)[k]][1],
      marketTokensBalance |-> choice[Present(choice)[k]]]]
marketStatRows(choice) ==
  LET present == SelectSeq([i \in 1..Len(RawMarkets) |-> i], LAMBDA i : choice[i] # <<>>)
  IN [k \in 1..Len(present) |->
        [marketAddress |-> RawMarkets[present[k]],
         weightedAverageMarketTokensSupply |-> choice[present[k]]]]
marketInfoRows(count, supply) ==
  [k \in 1..count |-> [marketToken |-> RawMarkets[k], marketTokensSupply |-> supply]]

SubgraphDatas ==
  {[liquidityProviderIncentivesStats |-> lpStatRows(st),
    marketIncentivesStats |-> marketStatRows(ss),
    userMarketInfos |-> userMarketInfoRows(inf),
    marketInfos |-> marketInfoRows(count, supply)] :
     st \in [1..Len(RowPairs) -> StatStrs],
     inf \in [1..Len(RowPairs) -> InfoStrs],
     ss \in [1..Len(RawMarkets) -> SupplyStatStrs],
     count \in 1..Len(RawMarkets),
     supply \in SupplyStrs}

\* stipLpIncentives.ts:77 and 81
PaginationLimit == 10000

\* stipLpIncentives.ts:88-94: one lpStat of the first loop.
lpStatStep(userBalances, lpStat, marketToken) ==
  IF lpStat.marketAddress = marketToken
    THEN (getAddress(lpStat.account) :> bigNumberify(lpStat.weightedAverageMarketTokensBalance))
         @@ userBalances
    ELSE userBalances

RECURSIVE lpStatsLoop(_, _, _)
lpStatsLoop(rows, marketToken, userBalances) ==
  IF rows = <<>> THEN userBalances
  ELSE lpStatsLoop(Tail(rows), marketToken, lpStatStep(userBalances, Head(rows), marketToken))

\* stipLpIncentives.ts:95-106: one userMarketInfo of the second loop.
userMarketInfoStep_NoStatCheck(userBalances, info, marketToken) ==
  IF info.marketAddress # marketToken THEN userBalances
  ELSE IF info.marketTokensBalance = <<0>> THEN userBalances
  ELSE (getAddress(info.account) :> bigNumberify(info.marketTokensBalance)) @@ userBalances
userMarketInfoStep(userBalances, info, marketToken) ==
  IF info.marketAddress # marketToken THEN userBalances
  ELSE IF getAddress(info.account) \in DOMAIN userBalances THEN userBalances
  ELSE IF info.marketTokensBalance = <<0>> THEN userBalances
  ELSE (getAddress(info.account) :> bigNumberify(info.marketTokensBalance)) @@ userBalances

RECURSIVE userMarketInfosLoop(_, _, _)
userMarketInfosLoop(rows, marketToken, userBalances) ==
  IF rows = <<>> THEN userBalances
  ELSE userMarketInfosLoop(Tail(rows), marketToken,
                           userMarketInfoStep(userBalances, Head(rows), marketToken))

\* stipLpIncentives.ts:108-110: find(...)?.weightedAverageMarketTokensSupply, with
\* <<>> for undefined.
weightedAverageMarketTokensSupply(stats, marketToken) ==
  LET found == {i \in 1..Len(stats) : stats[i].marketAddress = marketToken}
  IN IF found = {} THEN <<>>
     ELSE stats[CHOOSE i \in found : \A j \in found : i <= j].weightedAverageMarketTokensSupply

\* stipLpIncentives.ts:86-118: the entry of one market.  A non-empty string is truthy,
\* "0" included, so the current supply is used only when there is no market stat.
marketEntry(d, marketInfo) ==
  LET stat == weightedAverageMarketTokensSupply(d.marketIncentivesStats, marketInfo.marketToken)
  IN [marketTokensSupply |->
        bigNumberify(IF stat # <<>> THEN stat ELSE marketInfo.marketTokensSupply),
      userBalances |->
        userMarketInfosLoop(d.userMarketInfos, marketInfo.marketToken,
          lpStatsLoop(d.liquidityProviderIncentivesStats, marketInfo.marketToken, EmptyMap))]

\* Object.fromEntries: a later entry of the same key replaces an earlier one.
RECURSIVE fromEntries(_)
fromEntries(entries) ==
  IF entries = <<>> THEN EmptyMap
  ELSE (entries[Len(entries)][1] :> entries[Len(entries)][2])
       @@ fromEntries(SubSeq(entries, 1, Len(entries) - 1))

\* stipLpIncentives.ts:85-122
requestBalancesData(d) ==
  fromEntries([i \in 1..Len(d.marketInfos) |->
                 <<getAddress(d.marketInfos[i].marketToken), marketEntry(d, d.marketInfos[i])>>])

\* stipLpIncentives.ts:34-75: the subgraph has answered.
BalancesInit ==
  /\ BatchIdle
  /\ subgraphData \in SubgraphDatas
  /\ balancesData = EmptyMap
  /\ lpAllocationData = [isActive |-> FALSE, rewardsPerMarket |-> EmptyMap,
                         totalRewards |-> 0]
  /\ apc = "request"
  /\ aerr = "none"
  /\ marketIx = 0
  /\ usersDistributionResult = EmptyMap
  /\ userTotalRewards = 0
  /\ jsonResult = EmptyMap
  /\ usersBelowThreshold = 0
  /\ eligibleUsers = 0
  /\ distributionFile = None

\* stipLpIncentives.ts:77-122
RequestBalancesData ==
  /\ UNCHANGED batchVars
  /\ apc = "request"
  /\ IF \/ Len(subgraphData.liquidityProviderIncentivesStats) = PaginationLimit
        \/ Len(subgraphData.userMarketInfos) = PaginationLimit
       THEN /\ AllocThrow("ShouldPaginate")
            /\ UNCHANGED balancesData
       ELSE /\ balancesData' = requestBalancesData(subgraphData)
            /\ apc' = "requested"
            /\ aerr' = aerr
  /\ UNCHANGED <<lpAllocationData, marketIx, usersDistributionResult, userTotalRewards,
                 jsonResult, usersBelowThreshold, eligibleUsers, distributionFile,
                 subgraphData>>

BalancesNext == RequestBalancesData

SpecBalances == BalancesInit /\ [][BalancesNext]_vars

(***************************************************************************)
(* getBatchSenderCalldata (roles.ts:341-362), called with the recipients   *)
(* and amount strings of the distribution file.                            *)
(***************************************************************************)
BatchSizes == {1, 2, batchSize, batchSize + 1}

\* The "-" of a key, whose other characters are the digits 0..9.
Dash == -1

\* roles.ts:360: `${from}-${Math.min(to, amounts.length) - 1}`
calldataKey_NoMin(fromIx, toIx, n) == toString(fromIx) \o <<Dash>> \o toString(toIx - 1)
calldataKey(fromIx, toIx, n) == toString(fromIx) \o <<Dash>> \o toString(Min(toIx, n) - 1)

\* roles.ts:354-359: the calldata of sendAndEmit, held as the arguments it encodes;
\* the token and the type id are those of the file, a decimal string encodes the
\* uint256 it spells.
encodeFunctionData(recipientsBatch, amountsBatch) ==
  SendTx(recipientsBatch,
         [i \in 1..Len(amountsBatch) |-> bigNumberify(amountsBatch[i])])

\* roles.ts:351-360: the key and the calldata of the batch starting at fromIx.
calldataEntry(rs, as, bs, fromIx) ==
  LET toIx == fromIx + bs
  IN <<calldataKey(fromIx, toIx, Len(as)),
       encodeFunctionData(slice(rs, fromIx, toIx), slice(as, fromIx, toIx))>>

\* The object after obj[key] = value for the entries in order: a key keeps the
\* position of its first assignment and the value of its last.
assignAll(entries) ==
  LET sameKey(i, j) == entries[i][1] = entries[j][1]
      firsts == SelectSeq([i \in 1..Len(entries) |-> i],
                          LAMBDA i : \A j \in 1..(i - 1) : ~sameKey(i, j))
      lastOf(i) == CHOOSE j \in i..Len(entries) :
                     sameKey(i, j) /\ \A l \in (j + 1)..Len(entries) : ~sameKey(i, l)
  IN [k \in 1..Len(firsts) |->
        <<entries[firsts[k]][1], entries[lastOf(firsts[k])][2]>>]

\* roles.ts:341-362
getBatchSenderCalldata(rs, as, bs) ==
  LET froms == range(0, Len(as), bs)
  IN assignAll([k \in 1..Len(froms) |-> calldataEntry(rs, as, bs, froms[k])])

\* A caller applies getBatchSenderCalldata to the file's list before the runs of main.
GetBatchSenderCalldata ==
  /\ UNCHANGED allocVars
  /\ pc = "idle"
  /\ runs = 0
  /\ calldataArgs = NoCalldataArgs
  /\ \E bs \in BatchSizes :
       /\ calldataArgs' = [batchSize |-> bs]
       /\ batchSenderCalldata' =
            getBatchSenderCalldata(recipientsOf(Entries(file)),
                                   [i \in 1..file.n |-> Entries(file)[i][2]], bs)
  /\ UNCHANGED <<file, ledgerFile, allowance, chain, pending, now, runs, pc, err, env,
                 data, migrations, recipients, amounts, totalAmount, batchIx,
                 seenRecipients, simulated, runBase>>

\* The runs of main over a file of distinct recipients, a first use of the ledger
\* and no allowance yet.
CalldataInit ==
  /\ Init
  /\ file.dup = NoDup
  /\ ~ledgerFile.exists
  /\ allowance = 0

CalldataNext ==
  \/ GetBatchSenderCalldata
  \/ Start
  \/ CheckAllowance
  \/ ApproveConfirmed
  \/ ApproveFailed
  \/ SendBatch
  \/ BatchConfirmed
  \/ BatchFailed
  \/ Finish
  \/ Exit

SpecCalldata == CalldataInit /\ [][CalldataNext]_vars

(***************************************************************************)
(* Properties of batchSend main.                                           *)
(***************************************************************************)
\* The transactions this run got confirmed, and its batch transactions.
RunTxs == SubSeq(chain, runBase + 1, Len(chain))
IsSend(tx) == tx.kind = "sendAndEmit"
RunSends == SelectSeq(RunTxs, IsSend)
NoTxByRun == Len(chain) = runBase /\ pending = None

\* The ledger holds an entry this run wrote: `now` is the run's own timestamp.
RecordedByRun ==
  /\ pc # "idle"
  /\ data.id \in DOMAIN readMigrations(ledgerFile)
  /\ readMigrations(ledgerFile)[data.id] = now

\* The k-th batch of the file, computed from the file alone.
FileBatch(k) ==
  LET lo == (k - 1) * batchSize + 1
      hi == Min(k * batchSize, file.n)
  IN SendTx([i \in 1..(hi - lo + 1) |-> KeyAt(file, lo + i - 1)],
            [i \in 1..(hi - lo + 1) |-> 10 + ((lo + i - 1) % 10)])
FileBatchCount == (file.n + batchSize - 1) \div batchSize

RECURSIVE Concat(_)
Concat(ss) == IF ss = <<>> THEN <<>> ELSE Head(ss) \o Concat(Tail(ss))

\* The step that starts a run, with the ledger holding the id or not.
C1_StartStep ==
  (pc = "idle" /\ pc' # "idle") =>
    LET had == data'.id \in DOMAIN readMigrations(ledgerFile)
    IN /\ (had /\ ~env'.SKIP_MIGRATION_VALIDATION) =>
             /\ pc' = "failed" /\ err' = "AlreadySent"
             /\ chain' = chain /\ pending' = None
             /\ allowance' = allowance /\ ledgerFile' = ledgerFile
       /\ (had /\ env'.SKIP_MIGRATION_VALIDATION) => err' # "AlreadySent"
\* A run that failed with the already-sent error does nothing more.
C1_AfterFailure ==
  (pc = "failed" /\ err = "AlreadySent") =>
    (pc' = "idle" /\ chain' = chain /\ pending' = None /\ ledgerFile' = ledgerFile)
\* C1: when the ledger already holds an entry for the file's distribution id and
\* SKIP_MIGRATION_VALIDATION is not set, the run fails with the already-sent error
\* with no approval or batch transaction issued and the ledger as it was; with the
\* flag set the run gets past the check.
C1_AlreadySentFailsFast == [][C1_StartStep /\ C1_AfterFailure]_vars
C1_Witness ==
  /\ pc = "failed" /\ err = "AlreadySent"
  /\ data.id \in DOMAIN readMigrations(ledgerFile)
  /\ env.WRITE /\ env.BATCH_SENDER_KEY

\* The k-th batch of the recipient list holds one address twice.
DuplicateInBatch(k) ==
  LET lo == (k - 1) * batchSize + 1
      hi == Min(k * batchSize, Len(recipients))
  IN Cardinality({Address(recipients[i]) : i \in lo..hi}) < hi - lo + 1
DuplicateInSomeBatch ==
  \E k \in 1..((Len(recipients) + batchSize - 1) \div batchSize) : DuplicateInBatch(k)
\* C2: in write mode a recipient list with the same recipient address twice within
\* one batch makes the run fail with the duplicate-recipient error before any
\* transaction (approval or batch send) is sent.
C2_DuplicateRecipientRejected ==
  (pc # "idle" /\ shouldSendTxn(env) /\ DuplicateInSomeBatch) =>
    /\ NoTxByRun
    /\ pc # "done"
    /\ pc = "failed" => err = "DuplicatedRecipient"

\* C3: the ledger entry of the distribution id is written only after every batch of
\* the distribution has been sent as a real transaction and confirmed in this run.
C3_LedgerOnlyAfterAllConfirmed ==
  RecordedByRun =>
    RunSends = [k \in 1..FileBatchCount |-> FileBatch(k)]

\* The state of a run that a failed transaction ended at batch index batchIx.
C4_AtFailure ==
  (pc = "failed" /\ err = "Submission" /\ ~env.DRY_RUN) =>
    /\ RunSends = [k \in 1..batchIx |-> FileBatch(k)]
    /\ pending = None
    /\ ~RecordedByRun
    /\ readMigrations(ledgerFile) = migrations
\* A transaction that is not confirmed ends the run; a failed run only exits; the
\* chain only grows; every run starts at batch 0 and submits the next batch in order.
C4_Step ==
  /\ (pc = "sent" /\ pc' # "sent" /\ chain' = chain) =>
        (pc' = "failed" /\ err' = "Submission" /\ pending' = None)
  /\ pc = "failed" =>
        (pc' = "idle" /\ chain' = chain /\ pending' = None /\ ledgerFile' = ledgerFile)
  /\ SubSeq(chain', 1, Len(chain)) = chain
  /\ (pc = "idle" /\ pc' # "idle") => batchIx' = 0
  /\ (pc' = "sent" /\ pc # "sent") =>
        (pending' = FileBatch(batchIx + 1) /\ Len(chain) - runBase \in {batchIx, batchIx + 1})
\* C4: when the transaction of batch k fails the run throws: no later batch is
\* submitted in that run, the batches before k stay confirmed, the ledger is as it
\* was read; a later run starts again at batch 0 and submits the batches in order
\* from there, those already confirmed included.
C4_FailureAbortsRun == []C4_AtFailure /\ [][C4_Step]_vars
C4_Witness ==
  /\ readMigrations(ledgerFile) = EmptyMap
  /\ runBase > 0
  /\ \E i \in 1..runBase : IsSend(chain[i]) /\ chain[i] = FileBatch(1)
  /\ Len(RunSends) >= 1 /\ RunSends[1] = FileBatch(1)

\* The batches the run submitted: simulated ones under DRY_RUN.
RunBatches == IF env.DRY_RUN THEN simulated ELSE RunSends
\* C5: a run that completes submits ceil(n / 150) batches of 1..150 pairs each whose
\* concatenation in submission order is the input list; for n = 301 the sizes are
\* 150, 150, 1.
C5_Partition ==
  (pc = "done" /\ shouldSendTxn(env)) =>
    LET bs == RunBatches
        rs == [k \in 1..Len(bs) |-> bs[k].recipients]
        as == [k \in 1..Len(bs) |-> bs[k].amounts]
    IN /\ Len(bs) = (file.n + batchSize - 1) \div batchSize
       /\ \A k \in 1..Len(bs) :
            /\ Len(rs[k]) \in 1..batchSize
            /\ Len(as[k]) = Len(rs[k])
       /\ Concat(rs) = [i \in 1..file.n |-> Entries(file)[i][1]]
       /\ Concat(as) = [i \in 1..file.n |-> bigNumberify(Entries(file)[i][2])]
       /\ file.n = 301 => [k \in 1..Len(bs) |-> Len(rs[k])] = <<150, 150, 1>>
C5_Witness ==
  /\ pc = "done" /\ shouldSendTxn(env) /\ ~env.DRY_RUN
  /\ file.n = 301
  /\ [k \in 1..Len(RunSends) |-> Len(RunSends[k].recipients)] = <<150, 150, 1>>

\* C10: with DRY_RUN set a run changes no state: it sends no approval and no batch
\* transaction and the distribution is not recorded as sent.
C10_DryRunChangesNothing ==
  (pc # "idle" /\ env.DRY_RUN) => (NoTxByRun /\ ~RecordedByRun)

\* The total of the batch at index batchIx and of all batches after it.
RemainingAmount == SumRange(amounts, batchIx * batchSize + 1, Len(amounts))

\* A short allowance makes the run send an approval of at least the total; the run
\* goes on to the batches only when that approval is confirmed.
C11_Step ==
  /\ (pc = "allowance" /\ allowance < SumSeq(amounts)) =>
        /\ pc' = "approving"
        /\ pending'.kind = "approve" /\ pending'.amounts[1] >= SumSeq(amounts)
        /\ chain' = chain
  /\ (pc = "allowance" /\ allowance >= SumSeq(amounts)) => pc' = "loop"
  /\ (pc = "approving" /\ pc' # "approving") =>
        \/ pc' = "failed"
        \/ /\ pc' = "loop"
           /\ chain' = Append(chain, pending)
           /\ allowance' >= SumSeq(amounts)
  /\ (pc' = "sent" /\ pc # "sent") => (pc = "loop" /\ allowance' >= RemainingAmount')
\* C11: in write mode, when a batch is submitted the signer's allowance to the batch
\* sender is at least the total of that batch and of all batches still to be sent; an
\* approval is issued and confirmed before the submission whenever the allowance is
\* short of that amount.
C11_AllowanceCoversRemaining ==
  [](pc = "sent" => allowance >= RemainingAmount) /\ [][C11_Step]_vars
C11_Witness ==
  /\ pc = "sent" /\ batchIx = 1
  /\ Len(chain) > runBase /\ chain[runBase + 1].kind = "approve"
  /\ allowance = RemainingAmount
  /\ allowance > 0

\* A batch transaction is submitted only with no transaction in flight and with all
\* batches before it confirmed by this run; while it is in flight main only waits for
\* it: the next step confirms it or ends the run.
C12_Step ==
  /\ (pending' # pending /\ pending'.kind = "sendAndEmit") =>
        /\ pending = None
        /\ pc' = "sent"
        /\ pending' = FileBatch(batchIx + 1)
        /\ RunSends = [k \in 1..batchIx |-> FileBatch(k)]
  /\ pc = "sent" =>
        \/ /\ pc' = "loop" /\ pending' = None
           /\ chain' = Append(chain, pending)
           /\ batchIx' = batchIx + 1
        \/ /\ pc' = "failed" /\ pending' = None
           /\ chain' = chain
\* C12: batches are submitted in strict sequence: at most one batch transaction is
\* unconfirmed at any time, and batch k+1 is submitted only after batch k has been
\* confirmed.
C12_StrictSequence ==
  /\ [](pending.kind = "sendAndEmit" =>
         (pc = "sent" /\ Len(RunSends) = batchIx /\ pending = FileBatch(batchIx + 1)))
  /\ [][C12_Step]_vars
C12_Witness ==
  /\ pc = "sent" /\ batchIx = 2
  /\ pending = FileBatch(3)
  /\ RunSends = <<FileBatch(1), FileBatch(2)>>

\* C13: when WRITE is not set (the default) a run sends no approval and no batch
\* transaction, leaves the ledger unchanged and needs no signing key; when WRITE is
\* set and no signing key is given the run fails before any transaction is sent.
C13_WriteFlagGatesEffects ==
  /\ (pc # "idle" /\ ~env.WRITE) =>
        /\ NoTxByRun
        /\ simulated = <<>>
        /\ readMigrations(ledgerFile) = migrations
        /\ ~RecordedByRun
        /\ err # "KeyRequired"
        /\ pc \in {"done", "failed"}
        /\ pc = "failed" => err = "AlreadySent"
  /\ (pc # "idle" /\ env.WRITE /\ ~env.BATCH_SENDER_KEY) =>
        /\ pc = "failed"
        /\ err \in {"KeyRequired", "AlreadySent"}
        /\ NoTxByRun
        /\ simulated = <<>>
        /\ readMigrations(ledgerFile) = migrations
C13_Witness ==
  /\ pc = "done"
  /\ env = NoEnv
  /\ file.n = 301
  /\ Len(recipients) = 301
  /\ allowance = 0

\* The ledger as a later run would read it, before and after a step.
Ledger == readMigrations(ledgerFile)
LedgerAfter == readMigrations(ledgerFile')

\* The ledger file changes only at the step that completes a run, and then only by
\* an entry of the run's own id; a run that starts with no ledger file reads the
\* empty ledger and does not fail for it.
C15_WriteOnlyOnCompletion ==
  /\ ledgerFile' # ledgerFile =>
        /\ pc = "loop" /\ pc' = "done"
        /\ DOMAIN LedgerAfter = DOMAIN Ledger \cup {data.id}
        /\ LedgerAfter[data.id] = now
  /\ (pc = "idle" /\ pc' # "idle" /\ ~ledgerFile.exists) =>
        /\ migrations' = EmptyMap
        /\ pc' = "failed" => err' = "KeyRequired"
        /\ ledgerFile' = ledgerFile

\* C15 as stated: the ledger is append-only: a run leaves every entry that existed
\* before it unchanged, with the same timestamp, and adds at most one entry, for its
\* own distribution id and only when it completes; a missing ledger file is read as
\* the empty ledger and is not an error.
C15_AppendOnly ==
  [][/\ C15_WriteOnlyOnCompletion
     /\ \A k \in DOMAIN Ledger : k \in DOMAIN LedgerAfter /\ LedgerAfter[k] = Ledger[k]]_vars

\* C15 as amended: a run leaves every entry of another distribution id unchanged, with
\* the same timestamp, and writes at most one entry, for its own id and only when it
\* completes: a new entry, or, when the id was already recorded and the run was made
\* with SKIP_MIGRATION_VALIDATION, that entry with the run's timestamp in place of the
\* old one; a missing ledger file is read as the empty ledger and is not an error.
C15_OtherEntriesKept ==
  [][/\ C15_WriteOnlyOnCompletion
     /\ \A k \in DOMAIN Ledger :
          /\ k \in DOMAIN LedgerAfter
          /\ LedgerAfter[k] # Ledger[k] =>
                (k = data.id /\ env.SKIP_MIGRATION_VALIDATION /\ LedgerAfter[k] = now)]_vars
C15_Witness ==
  /\ pc = "done"
  /\ DOMAIN Ledger = {1, 2}
  /\ Ledger[1] = 1
  /\ data.id = 2 /\ Ledger[2] = now
  /\ ~env.SKIP_MIGRATION_VALIDATION

(***************************************************************************)
(* Properties of stipLpIncentives main.                                    *)
(***************************************************************************)
BalancesSum(m) == SumValues(balancesData[m].userBalances)
Supply(m) == balancesData[m].marketTokensSupply
Allocation(m) == lpAllocationData.rewardsPerMarket[m]

\* The rewards a completed ProcessMarket step hands out for its market.
PaidByStep == SumValues(usersDistributionResult') - SumValues(usersDistributionResult)

\* C6 as stated: every market that passes the reconciliation check hands out at most
\* its reward allocation.
C6_MarketRewardsWithinAllocation ==
  [][marketIx' = marketIx + 1 =>
       PaidByStep <= Allocation(RewardedMarkets[marketIx + 1])]_vars

\* C6 as amended: a market that passes the reconciliation check and whose account
\* balances sum to at most its token supply hands out at most its reward allocation.
C6_WithinAllocationWhenBalancesWithinSupply ==
  [][(/\ marketIx' = marketIx + 1
      /\ BalancesSum(RewardedMarkets[marketIx + 1]) <= Supply(RewardedMarkets[marketIx + 1]))
       => PaidByStep <= Allocation(RewardedMarkets[marketIx + 1])]_vars
C6_Witness ==
  /\ apc = "markets" /\ marketIx = 1
  /\ BalancesSum(RewardedMarkets[1]) = Supply(RewardedMarkets[1])
  /\ Cardinality(DOMAIN usersDistributionResult) = 2
  /\ SumValues(usersDistributionResult) > 0
  /\ SumValues(usersDistributionResult) < Allocation(RewardedMarkets[1])

\* |sum of account balances - market token supply| > 1e18
Diverges(m) ==
  LET d == BalancesSum(m) - Supply(m)
  IN d > expandDecimals(1, 18) \/ (0 - d) > expandDecimals(1, 18)
\* C7: the reconciliation error is raised for a rewarded market exactly when
\* |sum of account balances - market token supply| > 1e18, never when the sum equals
\* the supply, and a run that raised it writes no distribution file.
C7_ReconciliationError ==
  /\ \A k \in 1..marketIx : ~Diverges(RewardedMarkets[k])
  /\ (apc = "failed" /\ aerr = "Reconciliation") =>
        /\ Diverges(RewardedMarkets[marketIx + 1])
        /\ BalancesSum(RewardedMarkets[marketIx + 1]) # Supply(RewardedMarkets[marketIx + 1])
        /\ distributionFile = None
  /\ (apc = "failed" /\ aerr = "DivisionByZero") => ~Diverges(RewardedMarkets[marketIx + 1])
  /\ aerr = "Reconciliation" => apc = "failed"
C7_Witness ==
  /\ apc = "failed" /\ aerr = "Reconciliation"
  /\ marketIx = 1
  /\ BalancesSum(RewardedMarkets[1]) = Supply(RewardedMarkets[1])
  /\ BalancesSum(RewardedMarkets[1]) > 0

\* The threshold filter and the over-allocation check have run.
AfterFilter ==
  \/ apc \in {"save", "done"}
  \/ apc = "failed" /\ aerr = "OverAllocation"

SumIncluded == SumOver([a \in DOMAIN jsonResult |-> bigNumberify(jsonResult[a])],
                       DOMAIN jsonResult)
SumAllRewards == SumValues(usersDistributionResult)

\* C8 as stated: the run fails with the over-allocation error exactly when the sum of
\* the rewards included in the output exceeds the total allocated reward, and a file
\* is written only when that sum is at most the total.
C8_CheckOnIncludedRewards ==
  AfterFilter =>
    /\ (aerr = "OverAllocation") <=> (SumIncluded > lpAllocationData.totalRewards)
    /\ distributionFile # None => SumIncluded <= lpAllocationData.totalRewards

\* C8 as amended: the over-allocation check is made on the rewards of all accounts,
\* those below the threshold included: the run fails with the over-allocation error
\* exactly when the sum of all accounts' rewards exceeds the total allocated reward,
\* and a file is written only when the sum of the included rewards is at most the total.
C8_CheckOnAllRewards ==
  AfterFilter =>
    /\ (aerr = "OverAllocation") <=> (SumAllRewards > lpAllocationData.totalRewards)
    /\ distributionFile # None => SumIncluded <= lpAllocationData.totalRewards
C8_Witness ==
  /\ apc = "failed" /\ aerr = "OverAllocation"
  /\ usersBelowThreshold > 0 /\ eligibleUsers > 0
  /\ SumIncluded <= lpAllocationData.totalRewards

\* The reward of account a summed over the rewarded markets, from the input data.
HasBalance(a, m) == m \in DOMAIN balancesData /\ a \in DOMAIN balancesData[m].userBalances
AggregateReward(a) ==
  SumOver([k \in 1..Len(RewardedMarkets) |->
             LET m == RewardedMarkets[k]
             IN IF HasBalance(a, m)
                  THEN (balancesData[m].userBalances[a] * Allocation(m)) \div Supply(m)
                  ELSE 0],
          1..Len(RewardedMarkets))
Rewarded(a) == \E k \in 1..Len(RewardedMarkets) : HasBalance(a, RewardedMarkets[k])
\* C9: an account is in the output amounts exactly when its reward summed over all
\* rewarded markets is at least 0.1 token (1e17), and then its output amount is that
\* sum: 1e18 is included, 5e16 is excluded, exactly 1e17 is included.
C9_ThresholdFilter ==
  AfterFilter =>
    \A a \in Accounts :
      /\ a \in DOMAIN jsonResult <=>
           (Rewarded(a) /\ AggregateReward(a) >= expandDecimals(1, 17))
      /\ a \in DOMAIN jsonResult => bigNumberify(jsonResult[a]) = AggregateReward(a)
      /\ (Rewarded(a) /\ AggregateReward(a) = expandDecimals(1, 18)) => a \in DOMAIN jsonResult
      /\ (Rewarded(a) /\ AggregateReward(a) = expandDecimals(5, 16)) => a \notin DOMAIN jsonResult
      /\ (Rewarded(a) /\ AggregateReward(a) = expandDecimals(1, 17)) => a \in DOMAIN jsonResult
C9_Witness ==
  /\ apc = "done"
  /\ Len(RewardedMarkets) = 2
  /\ HasBalance("a", "m1") /\ HasBalance("a", "m2")
  /\ AggregateReward("a") = expandDecimals(1, 17)
  /\ distributionFile.amounts["a"] = <<1, 0>>
  /\ Rewarded("b") /\ AggregateReward("b") = expandDecimals(5, 16)
  /\ "b" \notin DOMAIN distributionFile.amounts

(***************************************************************************)
(* Properties of requestBalancesData.                                      *)
(***************************************************************************)
\* The rows of a list for one market and account.
RowsOf(rows, market, account) ==
  {k \in 1..Len(rows) : rows[k].marketAddress = market /\ rows[k].account = account}

\* C14: for every market and account: an account with a historical weighted-average
\* stat for the market has that value as its balance and its current balance is
\* ignored; the current balance is used only for an account with no historical stat
\* for the market, and only when it is non-zero; every other account is absent from
\* the market's balances.
C14_BalanceSource ==
  apc = "requested" =>
    /\ DOMAIN balancesData =
         {getAddress(subgraphData.marketInfos[i].marketToken) :
            i \in 1..Len(subgraphData.marketInfos)}
    /\ \A i \in 1..Len(subgraphData.marketInfos) :
         LET market == subgraphData.marketInfos[i].marketToken
             userBalances == balancesData[getAddress(market)].userBalances
             lpStats == subgraphData.liquidityProviderIncentivesStats
             infos == subgraphData.userMarketInfos
         IN /\ DOMAIN userBalances \subseteq
                 {getAddress(RawAccounts[j]) : j \in 1..Len(RawAccounts)}
            /\ \A j \in 1..Len(RawAccounts) :
                 LET account == RawAccounts[j]
                     stats == RowsOf(lpStats, market, account)
                     current == {k \in RowsOf(infos, market, account) :
                                   bigNumberify(infos[k].marketTokensBalance) # 0}
                 IN IF stats # {}
                      THEN /\ getAddress(account) \in DOMAIN userBalances
                           /\ \A k \in stats :
                                userBalances[getAddress(account)] =
                                  bigNumberify(lpStats[k].weightedAverageMarketTokensBalance)
                    ELSE IF current # {}
                      THEN /\ getAddress(account) \in DOMAIN userBalances
                           /\ \A k \in current :
                                userBalances[getAddress(account)] =
                                  bigNumberify(infos[k].marketTokensBalance)
                    ELSE getAddress(account) \notin DOMAIN userBalances
C14_Witness ==
  /\ apc = "requested"
  /\ DOMAIN balancesData = {"m1", "m2"}
  /\ balancesData["m1"].userBalances = ("a" :> 5) @@ ("b" :> 7)
  /\ \E k \in RowsOf(subgraphData.userMarketInfos, "0xm1", "0xa") :
       subgraphData.userMarketInfos[k].marketTokensBalance = <<7>>
  /\ RowsOf(subgraphData.liquidityProviderIncentivesStats, "0xm1", "0xb") = {}
  /\ \E k \in RowsOf(subgraphData.liquidityProviderIncentivesStats, "0xm2", "0xa") :
       subgraphData.liquidityProviderIncentivesStats[k].weightedAverageMarketTokensBalance = <<0>>
  /\ balancesData["m2"].userBalances["a"] = 0
  /\ \E k \in RowsOf(subgraphData.userMarketInfos, "0xm2", "0xb") :
       subgraphData.userMarketInfos[k].marketTokensBalance = <<0>>
  /\ "b" \notin DOMAIN balancesData["m2"].userBalances

(***************************************************************************)
(* Properties of getBatchSenderCalldata.                                   *)
(***************************************************************************)
\* The index range a key "a-b" spells.
DashAt(key) == CHOOSE i \in 1..Len(key) : key[i] = Dash
ParseKey(key) ==
  <<bigNumberify(SubSeq(key, 1, DashAt(key) - 1)),
    bigNumberify(SubSeq(key, DashAt(key) + 1, Len(key)))>>

\* The entries getBatchSenderCalldata returned: one per batch, the key of each an
\* inclusive index range, the ranges disjoint, in order and covering 0..n-1, each
\* entry encoding the recipients and amounts at the indices of its range.
C16_Ranges ==
  LET n == file.n
      bs == calldataArgs.batchSize
      res == batchSenderCalldata
      a(k) == ParseKey(res[k][1])[1]
      b(k) == ParseKey(res[k][1])[2]
  IN /\ bs >= 1
     /\ Len(res) = (n + bs - 1) \div bs
     /\ \A k \in 1..Len(res) :
          /\ Cardinality({i \in 1..Len(res[k][1]) : res[k][1][i] = Dash}) = 1
          /\ a(k) <= b(k)
          /\ b(k) - a(k) + 1 <= bs
          /\ k = 1 => a(k) = 0
          /\ k > 1 => a(k) = b(k - 1) + 1
          /\ k = Len(res) => b(k) = n - 1
          /\ res[k][2].kind = "sendAndEmit"
          /\ res[k][2].recipients =
               [i \in 1..(b(k) - a(k) + 1) |-> Entries(file)[a(k) + i][1]]
          /\ res[k][2].amounts =
               [i \in 1..(b(k) - a(k) + 1) |-> bigNumberify(Entries(file)[a(k) + i][2])]
\* A completed write-mode run of main has submitted the entries' batches.
C16_SameAsMain ==
  (calldataArgs.batchSize = batchSize /\ pc = "done" /\ shouldSendTxn(env)) =>
    RunBatches = [k \in 1..Len(batchSenderCalldata) |-> batchSenderCalldata[k][2]]
\* C16: for a list of length n and a batchSize >= 1, getBatchSenderCalldata returns one
\* entry per batch whose key "a-b" is an inclusive index range; the ranges are
\* disjoint, in order, and cover 0..n-1 exactly; each entry encodes exactly the
\* recipients and amounts at the indices a..b; and for the batch size of main the
\* entries are the batches main submits for the same list.
C16_CalldataBatches ==
  /\ [][calldataArgs' # calldataArgs => C16_Ranges']_vars
  /\ []C16_SameAsMain
C16_Witness ==
  /\ calldataArgs.batchSize = batchSize
  /\ file.n = 301
  /\ pc = "done" /\ shouldSendTxn(env) /\ ~env.DRY_RUN
  /\ Len(batchSenderCalldata) = 3
  /\ batchSenderCalldata[2][1] = <<1, 5, 0, Dash, 2, 9, 9>>
  /\ batchSenderCalldata[3][1] = <<3, 0, 0, Dash, 3, 0, 0>>
  /\ RunSends[3] = batchSenderCalldata[3][2]

====
